---- MODULE Spec2Model ----
(***************************************************************************)
(* A model of the executable parts of the levelup-web3 repository:         *)
(*   - the WalletDropdown React component (local state, memoised           *)
(*     callbacks, menu actions) against its wallet-context collaborator;   *)
(*   - the Tipper contract of the "Guardrail AI Agents with ZKML" article;  *)
(*   - the L1SLOAD reader contracts of the "Reading Data Structures"       *)
(*     article.                                                            *)
(* Spec is the component, SpecTipper the Tipper contract, SpecArray the    *)
(* dynamic-array reader.                                                   *)
(***************************************************************************)
EXTENDS Integers, Sequences, FiniteSets, TLC

VARIABLES
    \* ---- WalletDropdown ----
    anchorEl,              \* useState<null | HTMLElement>(null)
    copied,                \* useState(false)
    open,                  \* useMemo(() => Boolean(anchorEl), [anchorEl])
    viewScan,              \* useCallback(..., [walletCurrentAddress, chainId])
    copyAddress,           \* useCallback(..., [walletCurrentAddress])
    operations,            \* useMemo(... , [pathname, viewScan, copyAddress, copied, disconnect])
    walletCurrentAddress,  \* useRainbowContext()
    chainId,               \* useRainbowContext()
    disconnect,            \* useRainbowContext(): identity of the disconnect function
    pathname,              \* usePathname()
    clipboard,             \* what copy() last wrote to the clipboard
    lastEvent,             \* the handler that ran last
    lastOk,                \* whether the external call of the last handler succeeded
    effects,               \* the calls the last handler made, in order
    \* ---- Tipper and the token it pays with ----
    tipperBalance,         \* TIP_TOKEN balance of the Tipper contract, in whole tokens
    recipientBalance,      \* TIP_TOKEN balance of each tip recipient
    tipCall,               \* the last transaction sent to the Tipper / token
    \* ---- L1DynamicArrayDemo and its L2 reader ----
    l1Storage,             \* storage of L1DynamicArrayDemo: slot -> word (absent = 0)
    myArray,               \* uint[] public myArray, as Solidity sees it
    l2Call,                \* the last call to one of the L2 reader contracts
    \* ---- L1Uint104Array ----
    packedStorage,         \* storage of L1Uint104Array: slot -> word (absent = 0)
    packedArray            \* uint104[] public myArray, as Solidity sees it

walletVars == <<anchorEl, copied, open, viewScan, copyAddress, operations,
                walletCurrentAddress, chainId, disconnect, pathname,
                clipboard, lastEvent, lastOk, effects>>

tipperVars == <<tipperBalance, recipientBalance, tipCall>>

arrayVars == <<l1Storage, myArray, l2Call>>

packedVars == <<packedStorage, packedArray>>

contractVars == <<tipperVars, arrayVars, packedVars>>

vars == <<walletVars, tipperVars, arrayVars, packedVars>>

----------------------------------------------------------------------------
(* Values *)

NULL == "null"
UNDEFINED == "undefined"

\* How many distinct DOM nodes the trigger button can be (it is unmounted and
\* mounted again whenever chainId turns falsy and truthy).
NumElements == 2
ElementNames == <<"button#1", "button#2", "button#3", "button#4">>
Elements == {ElementNames[i] : i \in 1..NumElements}

\* How many distinct wallet addresses the context can report.
NumAddresses == 2
AddressNames == <<"0xA", "0xB", "0xC", "0xD">>
Addresses == {AddressNames[i] : i \in 1..NumAddresses}

CHAIN_ID == [L1 |-> "chain:L1", L2 |-> "chain:L2"]
EXPLORER_URL == [L1 |-> "explorer:L1", L2 |-> "explorer:L2"]
ChainIds == {CHAIN_ID.L1, CHAIN_ID.L2, "chain:other"}

DisconnectFns == {"disconnect#1", "disconnect#2"}
Pathnames == {"/", "/content"}

Boolean(v) == v # NULL /\ v # UNDEFINED

generateExploreLink(url, address, kind) == <<url, address, kind>>

----------------------------------------------------------------------------
(* Hooks: each memo keeps its value unless one of its dependencies changed. *)

openDeps == <<anchorEl>>

viewScanDeps == <<walletCurrentAddress, chainId>>

\* A faulty dependency list: the callback keeps the address of the first render.
copyAddressDeps_Empty == << >>

copyAddressDeps == <<walletCurrentAddress>>

\* A faulty dependency list: copied left out, so the array keeps a stale icon.
operationsDeps_WithoutCopied == <<pathname, viewScan, copyAddress, disconnect>>

operationsDeps == <<pathname, viewScan, copyAddress, copied, disconnect>>

\* The closure useCallback creates at line 111: it captures the render's
\* walletCurrentAddress and chainId.
viewScanClosure ==
    [kind |-> "viewScan", walletCurrentAddress |-> walletCurrentAddress,
     chainId |-> chainId]

\* The closure useCallback creates at line 121.
copyAddressClosure ==
    [kind |-> "copyAddress", walletCurrentAddress |-> walletCurrentAddress]

\* The array useMemo creates at line 127.
operationsValue ==
    << [icon |-> "BlockSvg", label |-> "Block explorer", action |-> viewScan],
       [icon |-> IF copied THEN "CopySuccessSvg" ELSE "CopySvg",
        label |-> "Copy address", action |-> copyAddress],
       [icon |-> "DisconnectSvg", label |-> "Disconnect",
        action |-> [kind |-> "disconnect", disconnect |-> disconnect]] >>

\* One render of the component after the state and context variables took
\* their new values: the hooks run in source order.
Render ==
    /\ open' = IF openDeps' # openDeps THEN Boolean(anchorEl') ELSE open
    /\ viewScan' = IF viewScanDeps' # viewScanDeps THEN viewScanClosure' ELSE viewScan
    /\ copyAddress' = IF copyAddressDeps' # copyAddressDeps
                        THEN copyAddressClosure' ELSE copyAddress
    /\ operations' = IF operationsDeps' # operationsDeps
                       THEN operationsValue' ELSE operations

----------------------------------------------------------------------------
(* Handlers *)

\* A faulty handleClick that toggles the menu instead of opening it.
handleClickBody_Toggles(currentTarget) ==
    /\ anchorEl' = IF anchorEl = NULL THEN currentTarget ELSE NULL
    /\ copied' = copied

\* A faulty handleClick that also clears the copied flag.
handleClickBody_ResetsCopied(currentTarget) ==
    /\ anchorEl' = currentTarget
    /\ copied' = FALSE

\* const handleClick = (e) => { setAnchorEl(e.currentTarget) }
handleClickBody(currentTarget) ==
    /\ anchorEl' = currentTarget
    /\ copied' = copied

\* A faulty handleClose that forgets setCopied(false).
handleCloseBody_KeepsCopied ==
    /\ anchorEl' = NULL
    /\ copied' = copied

\* const handleClose = () => { setAnchorEl(null); setCopied(false) }
handleCloseBody ==
    /\ anchorEl' = NULL
    /\ copied' = FALSE

handleCloseEffects == << <<"setAnchorEl", NULL>>, <<"setCopied", "false">> >>

\* A faulty viewScan that sends every chain but L2 to the L1 explorer.
viewScanEffects_L2OrElseL1(cb) ==
    << <<"window.open">> \o
       generateExploreLink(
           EXPLORER_URL[IF cb.chainId = CHAIN_ID.L2 THEN "L2" ELSE "L1"],
           cb.walletCurrentAddress, "address") >>

\* The body of the viewScan closure cb: window.open(generateExploreLink(...)).
viewScanEffects(cb) ==
    << <<"window.open">> \o
       generateExploreLink(
           EXPLORER_URL[IF cb.chainId = CHAIN_ID.L1 THEN "L1" ELSE "L2"],
           cb.walletCurrentAddress, "address") >>

viewScanBody(cb) ==
    /\ anchorEl' = anchorEl
    /\ copied' = copied

\* A faulty copyAddress that sets the flag only when copy() reports success.
copyAddressBody_OnlyOnSuccess(cb, ok) ==
    /\ clipboard' = IF ok THEN cb.walletCurrentAddress ELSE clipboard
    /\ copied' = (copied \/ ok)
    /\ anchorEl' = anchorEl

\* The body of the copyAddress closure cb: copy(address); setCopied(true).
\* ok is what copy() reports; the code ignores it.
copyAddressBody(cb, ok) ==
    /\ clipboard' = IF ok THEN cb.walletCurrentAddress ELSE clipboard
    /\ copied' = TRUE
    /\ anchorEl' = anchorEl

copyAddressEffects(cb) ==
    << <<"copy", cb.walletCurrentAddress>>, <<"setCopied", "true">> >>

\* A faulty Disconnect entry that calls disconnect() and leaves the menu open.
disconnectActionBody_NoClose ==
    /\ anchorEl' = anchorEl
    /\ copied' = copied

\* The Disconnect entry's closure: disconnect(); handleClose().
disconnectActionBody ==
    handleCloseBody

\* A faulty Disconnect entry that closes the menu first and disconnects after.
disconnectActionEffects_CloseFirst(cb) ==
    handleCloseEffects \o << <<"disconnect", cb.disconnect>> >>

disconnectActionEffects(cb) ==
    << <<"disconnect", cb.disconnect>> >> \o handleCloseEffects

\* A faulty render that shows the trigger whenever an address is known.
RenderedButton_ByAddress ==
    IF Boolean(walletCurrentAddress) THEN "ButtonBase" ELSE "Connect Wallet"

\* {chainId ? <ButtonBase onClick={handleClick}> : <Button onClick={connect}>}
RenderedButton ==
    IF Boolean(chainId) THEN "ButtonBase" ELSE "Connect Wallet"

\* The trigger button (rendered only while chainId is truthy) is clicked.
handleClick ==
    /\ RenderedButton = "ButtonBase"
    /\ \E currentTarget \in Elements :
          /\ handleClickBody(currentTarget)
          /\ effects' = << <<"setAnchorEl", currentTarget>> >>
    /\ lastEvent' = "handleClick"
    /\ lastOk' = TRUE
    /\ UNCHANGED <<walletCurrentAddress, chainId, disconnect, pathname, clipboard>>
    /\ Render
    /\ UNCHANGED contractVars

\* A faulty onClose that also ends the wallet session.
handleClose_ClearsWallet ==
    /\ open
    /\ handleCloseBody
    /\ effects' = handleCloseEffects
    /\ lastEvent' = "handleClose"
    /\ lastOk' = TRUE
    /\ walletCurrentAddress' = UNDEFINED
    /\ chainId' = UNDEFINED
    /\ UNCHANGED <<disconnect, pathname, clipboard>>
    /\ Render
    /\ UNCHANGED contractVars

\* Menu onClose: a backdrop click or Escape while the menu is open.
handleClose ==
    /\ open
    /\ handleCloseBody
    /\ effects' = handleCloseEffects
    /\ lastEvent' = "handleClose"
    /\ lastOk' = TRUE
    /\ UNCHANGED <<walletCurrentAddress, chainId, disconnect, pathname, clipboard>>
    /\ Render
    /\ UNCHANGED contractVars

\* MenuItem "Block explorer": onClick = operations[1].action.
BlockExplorerClick ==
    /\ open
    /\ LET cb == operations[1].action IN
          /\ viewScanBody(cb)
          /\ effects' = viewScanEffects(cb)
    /\ lastEvent' = "Block explorer"
    /\ lastOk' = TRUE
    /\ UNCHANGED <<walletCurrentAddress, chainId, disconnect, pathname, clipboard>>
    /\ Render
    /\ UNCHANGED contractVars

\* MenuItem "Copy address": onClick = operations[2].action.
CopyAddressClick ==
    /\ open
    /\ \E ok \in BOOLEAN :
          LET cb == operations[2].action IN
          /\ copyAddressBody(cb, ok)
          /\ effects' = copyAddressEffects(cb)
          /\ lastOk' = ok
    /\ lastEvent' = "Copy address"
    /\ UNCHANGED <<walletCurrentAddress, chainId, disconnect, pathname>>
    /\ Render
    /\ UNCHANGED contractVars

\* MenuItem "Disconnect": onClick = operations[3].action. The collaborator's
\* disconnect() either ends the session at once (ok) or leaves it as it is
\* (still pending, or failed inside the library).
DisconnectClick ==
    /\ open
    /\ LET cb == operations[3].action IN
          /\ disconnectActionBody
          /\ effects' = disconnectActionEffects(cb)
    /\ \E ok \in BOOLEAN :
          /\ lastOk' = ok
          /\ walletCurrentAddress' = IF ok THEN UNDEFINED ELSE walletCurrentAddress
          /\ chainId' = IF ok THEN UNDEFINED ELSE chainId
    /\ lastEvent' = "Disconnect"
    /\ UNCHANGED <<disconnect, pathname, clipboard>>
    /\ Render
    /\ UNCHANGED contractVars

\* The "Connect Wallet" button (rendered only while chainId is falsy):
\* onClick = connect. The collaborator either connects at once or not.
ConnectClick ==
    /\ RenderedButton = "Connect Wallet"
    /\ anchorEl' = anchorEl
    /\ copied' = copied
    /\ effects' = << <<"connect">> >>
    /\ \E ok \in BOOLEAN :
          /\ lastOk' = ok
          /\ IF ok
               THEN /\ walletCurrentAddress' \in Addresses
                    /\ chainId' \in ChainIds
               ELSE UNCHANGED <<walletCurrentAddress, chainId>>
    /\ lastEvent' = "Connect Wallet"
    /\ UNCHANGED <<disconnect, pathname, clipboard>>
    /\ Render
    /\ UNCHANGED contractVars

\* A faulty component that closes the menu whenever the context changes.
ContextUpdate_ClosesMenu ==
    /\ walletCurrentAddress' \in Addresses \cup {UNDEFINED}
    /\ chainId' \in ChainIds \cup {UNDEFINED}
    /\ disconnect' \in DisconnectFns
    /\ <<walletCurrentAddress', chainId', disconnect'>>
         # <<walletCurrentAddress, chainId, disconnect>>
    /\ handleCloseBody
    /\ UNCHANGED <<pathname, clipboard>>
    /\ effects' = << >>
    /\ lastEvent' = "context"
    /\ lastOk' = TRUE
    /\ Render
    /\ UNCHANGED contractVars

\* The wallet-context collaborator publishes a new value (account or chain
\* switched in the wallet, a pending connect or disconnect completed, the
\* provider re-created its disconnect function).
ContextUpdate ==
    /\ walletCurrentAddress' \in Addresses \cup {UNDEFINED}
    /\ chainId' \in ChainIds \cup {UNDEFINED}
    /\ disconnect' \in DisconnectFns
    /\ <<walletCurrentAddress', chainId', disconnect'>>
         # <<walletCurrentAddress, chainId, disconnect>>
    /\ UNCHANGED <<anchorEl, copied, pathname, clipboard>>
    /\ effects' = << >>
    /\ lastEvent' = "context"
    /\ lastOk' = TRUE
    /\ Render
    /\ UNCHANGED contractVars

\* usePathname() reports another route.
Navigate ==
    /\ pathname' \in Pathnames \ {pathname}
    /\ UNCHANGED <<anchorEl, copied, walletCurrentAddress, chainId, disconnect, clipboard>>
    /\ effects' = << >>
    /\ lastEvent' = "navigate"
    /\ lastOk' = TRUE
    /\ Render
    /\ UNCHANGED contractVars

\* The first render: the page loads with no wallet session.
InitWallet ==
    /\ anchorEl = NULL
    /\ copied = FALSE
    /\ walletCurrentAddress = UNDEFINED
    /\ chainId = UNDEFINED
    /\ disconnect = "disconnect#1"
    /\ pathname = "/"
    /\ open = Boolean(anchorEl)
    /\ viewScan = viewScanClosure
    /\ copyAddress = copyAddressClosure
    /\ operations = operationsValue
    /\ clipboard = UNDEFINED
    /\ lastEvent = "mount"
    /\ lastOk = TRUE
    /\ effects = << >>

----------------------------------------------------------------------------
(* The Tipper contract ("Guardrail AI Agents with ZKML", Step 4) *)

\* 1_000 ether, counted in whole tokens.
TIP_AMOUNT == 1000
ADDRESS_BYTES == 20
WORD_BYTES == 32

\* How many distinct non-zero recipients a proof can name.
NumRecipients == 2
\* How many times the Tipper is funded with TIP_AMOUNT tokens.
MaxFunding == 2

AddressOf(k) == [j \in 1..ADDRESS_BYTES |-> (k * j) % 256]
ZeroAddress == AddressOf(0)
Recipients == {AddressOf(k) : k \in 1..NumRecipients}

Zeros(n) == [j \in 1..n |-> 0]

\* Calldata as EZKL encodes it: a prefix, then the public instances, one
\* 32-byte word per byte of the recipient address.
ProofFor(prefixLen, recipient) ==
    Zeros(prefixLen) \o
    [j \in 1..(ADDRESS_BYTES * WORD_BYTES) |->
        IF j % WORD_BYTES = 0 THEN recipient[j \div WORD_BYTES] ELSE 0]

ProofCalldatas ==
    {ProofFor(4, r) : r \in Recipients \cup {ZeroAddress}}
    \cup {ProofFor(36, AddressOf(1)), Zeros(100)}

\* What the low-level call can hand back as data.
DataOf(len, first, last) ==
    [j \in 1..len |-> IF j = len THEN last ELSE IF j = 1 THEN first ELSE 0]

ReturnDatas ==
    {DataOf(len, 0, last) : len \in {0, 31, 32, 33}, last \in {0, 1}}
    \cup {DataOf(32, 1, 1), DataOf(32, 0, 2), DataOf(64, 0, 1)}

\* A faulty condition that does not look at the success flag of the call.
Verified_IgnoresSuccess(success, data) ==
    IF Len(data) = 32 THEN data[32] = 1 ELSE FALSE

\* success && data.length == 32 && uint8(data[31]) == 1
Verified(success, data) ==
    IF success
      THEN IF Len(data) = 32 THEN data[32] = 1 ELSE FALSE
      ELSE FALSE

\* Whether the loop of extractTipRecipientFromProof indexes inside the proof.
extractInBounds(proofCalldata) ==
    \A i \in 0..(ADDRESS_BYTES - 1) :
        /\ Len(proofCalldata) >= 1 + i * WORD_BYTES
        /\ Len(proofCalldata) - (1 + i * WORD_BYTES) < Len(proofCalldata)

\* lastBytes[20-1-i] = proofCalldata[proofCalldata.length - (1+i*32)]
extractTipRecipientFromProof(proofCalldata) ==
    [j \in 1..ADDRESS_BYTES |->
        LET i == ADDRESS_BYTES - j
        IN  proofCalldata[(Len(proofCalldata) - (1 + i * WORD_BYTES)) + 1]]

\* ERC20.transfer of the token of Step 3 reverts when the receiver is the zero
\* address or the sender's balance is too small.
transferReverts(to, value) ==
    to = ZeroAddress \/ tipperBalance < value

RECURSIVE SumOver(_, _)
SumOver(f, S) ==
    IF S = {} THEN 0
    ELSE LET x == CHOOSE y \in S : TRUE IN f[x] + SumOver(f, S \ {x})

\* The tokens the deployer has handed out so far.
TokensOut == tipperBalance + SumOver(recipientBalance, Recipients)

NoCall ==
    [fn |-> "none", success |-> FALSE, data |-> << >>, proofLen |-> 0,
     outcome |-> "none", reason |-> "", transfers |-> << >>]

\* function verifyAndSendTip(bytes memory proofCalldata) public
verifyAndSendTip ==
    \E proofCalldata \in ProofCalldatas, success \in BOOLEAN, data \in ReturnDatas :
        LET call == [fn |-> "verifyAndSendTip", success |-> success, data |-> data,
                     proofLen |-> Len(proofCalldata), outcome |-> "revert",
                     reason |-> "", transfers |-> << >>]
        IN
        /\ IF Verified(success, data)
             THEN IF ~extractInBounds(proofCalldata)
                    THEN /\ tipCall' = [call EXCEPT !.reason = "Panic"]
                         /\ UNCHANGED <<tipperBalance, recipientBalance>>
                    ELSE LET to == extractTipRecipientFromProof(proofCalldata) IN
                         IF transferReverts(to, TIP_AMOUNT)
                           THEN /\ tipCall' = [call EXCEPT !.reason = "ERC20 transfer reverted"]
                                /\ UNCHANGED <<tipperBalance, recipientBalance>>
                           ELSE /\ tipperBalance' = tipperBalance - TIP_AMOUNT
                                /\ recipientBalance' =
                                     [recipientBalance EXCEPT ![to] = @ + TIP_AMOUNT]
                                /\ tipCall' = [call EXCEPT
                                                 !.outcome = "ok",
                                                 !.transfers = << <<to, TIP_AMOUNT>> >>]
             ELSE /\ tipCall' = [call EXCEPT !.reason = "Could not verify proof"]
                  /\ UNCHANGED <<tipperBalance, recipientBalance>>
        /\ UNCHANGED <<walletVars, arrayVars, packedVars>>

\* "Then, transfer at least 1000 Tip Tokens to this contract."
FundTipper ==
    /\ TokensOut + TIP_AMOUNT <= MaxFunding * TIP_AMOUNT
    /\ tipperBalance' = tipperBalance + TIP_AMOUNT
    /\ tipCall' = [NoCall EXCEPT !.fn = "fund", !.outcome = "ok"]
    /\ UNCHANGED <<recipientBalance, walletVars, arrayVars, packedVars>>

InitTipper ==
    /\ tipperBalance = 0
    /\ recipientBalance = [r \in Recipients |-> 0]
    /\ tipCall = NoCall

NextTipper ==
    \/ verifyAndSendTip
    \/ FundTipper

----------------------------------------------------------------------------
(* L1DynamicArrayDemo and L2DynamicArrayDemo ("Reading Data Structures") *)

\* Width of an EVM word in the model (256 in the EVM).
WordBits == 8
WordModulus == 2 ^ WordBits

\* How long myArray may grow.
MaxLen == 3
\* The constructor pushes 10, 20 and 30.
PushValues == {10, 20, 30}

L1_DEMO == "L1DynamicArrayDemo"
MY_ARRAY_SLOT == 0
ArraySlots == {MY_ARRAY_SLOT, 1}
ArrayIndices == 0..(MaxLen + 1)

\* KECCAK256 of a slot number: distinct slots hash to distinct, far apart words.
KECCAK256(slot) == ((slot + 1) * WordModulus) \div 4

SLoad(slot) == IF slot \in DOMAIN l1Storage THEN l1Storage[slot] ELSE 0

\* myArray.push(v): the element goes to KECCAK256(slot) + length, the length
\* in the array's own slot grows by one.
Push ==
    /\ Len(myArray) < MaxLen
    /\ \E v \in PushValues :
          LET length == SLoad(MY_ARRAY_SLOT)
              elementSlot == (KECCAK256(MY_ARRAY_SLOT) + length) % WordModulus
          IN  /\ l1Storage' = (MY_ARRAY_SLOT :> (length + 1)) @@ (elementSlot :> v) @@ l1Storage
              /\ myArray' = Append(myArray, v)
    /\ l2Call' = [l2Call EXCEPT !.fn = "none"]
    /\ UNCHANGED <<walletVars, tipperVars, packedVars>>

\* L1_SLOAD_ADDRESS.staticcall(abi.encodePacked(contractAddress, slot)):
\* (success, returnValue) when the precompile answers ok, (false, _) otherwise.
l1sload(contractAddress, slot, ok) ==
    [success |-> ok, returnValue |-> IF ok THEN SLoad(slot) ELSE 0]

NoL2Call ==
    [fn |-> "none", arraySlot |-> 0, arrayIndex |-> 0, sloadOk |-> << >>,
     outcome |-> "none", reason |-> "", value |-> 0, reads |-> << >>]

\* function getArrayLength(address contractAddress, uint arraySlot): the
\* result record of one call.
getArrayLengthResult(contractAddress, arraySlot, ok) ==
    LET r == l1sload(contractAddress, arraySlot, ok) IN
    IF ~r.success
      THEN [outcome |-> "revert", reason |-> "L1SLOAD failed", value |-> 0,
            reads |-> <<arraySlot>>]
      ELSE [outcome |-> "return", reason |-> "", value |-> r.returnValue,
            reads |-> <<arraySlot>>]

\* A faulty slot formula: the one of static arrays.
arrayElementSlot_Static(arraySlot, arrayIndex) == arraySlot + arrayIndex

\* uint(keccak256(abi.encodePacked(arraySlot))) + arrayIndex
arrayElementSlot(arraySlot, arrayIndex) == KECCAK256(arraySlot) + arrayIndex

\* function retrieveArrayElement(address contractAddress, uint arraySlot,
\* uint arrayIndex): the result record of one call.
retrieveArrayElementResult(contractAddress, arraySlot, arrayIndex, lenOk, elemOk) ==
    LET length == getArrayLengthResult(contractAddress, arraySlot, lenOk) IN
    IF length.outcome = "revert"
      THEN length
    ELSE IF ~(arrayIndex < length.value)
      THEN [outcome |-> "revert", reason |-> "Out of bounds index", value |-> 0,
            reads |-> length.reads]
    ELSE IF arrayElementSlot(arraySlot, arrayIndex) >= WordModulus
      THEN [outcome |-> "revert", reason |-> "Panic", value |-> 0,
            reads |-> length.reads]
    ELSE LET slot == arrayElementSlot(arraySlot, arrayIndex)
             r == l1sload(contractAddress, slot, elemOk)
         IN  IF ~r.success
               THEN [outcome |-> "revert", reason |-> "L1SLOAD failed", value |-> 0,
                     reads |-> Append(length.reads, slot)]
               ELSE [outcome |-> "return", reason |-> "", value |-> r.returnValue,
                     reads |-> Append(length.reads, slot)]

getArrayLength ==
    \E arraySlot \in ArraySlots, ok \in BOOLEAN :
        LET r == getArrayLengthResult(L1_DEMO, arraySlot, ok) IN
        /\ l2Call' = [fn |-> "getArrayLength", arraySlot |-> arraySlot, arrayIndex |-> 0,
                      sloadOk |-> <<ok>>, outcome |-> r.outcome, reason |-> r.reason,
                      value |-> r.value, reads |-> r.reads]
        /\ UNCHANGED <<l1Storage, myArray, walletVars, tipperVars, packedVars>>

retrieveArrayElement ==
    \E arraySlot \in ArraySlots, arrayIndex \in ArrayIndices,
       lenOk \in BOOLEAN, elemOk \in BOOLEAN :
        LET r == retrieveArrayElementResult(L1_DEMO, arraySlot, arrayIndex, lenOk, elemOk)
        IN
        /\ l2Call' = [fn |-> "retrieveArrayElement", arraySlot |-> arraySlot,
                      arrayIndex |-> arrayIndex,
                      sloadOk |-> IF Len(r.reads) = 2 THEN <<lenOk, elemOk>> ELSE <<lenOk>>,
                      outcome |-> r.outcome, reason |-> r.reason,
                      value |-> r.value, reads |-> r.reads]
        /\ UNCHANGED <<l1Storage, myArray, walletVars, tipperVars, packedVars>>

InitArray ==
    /\ l1Storage = << >>
    /\ myArray = << >>
    /\ l2Call = NoL2Call

NextArray ==
    \/ Push
    \/ getArrayLength
    \/ retrieveArrayElement

----------------------------------------------------------------------------
(* L1Uint104Array and L2Uint104ArrayDemo ("Storing Values 16 Bytes or Smaller") *)

\* Width of an array element in the model (104 in uint104).
ElemBits == 3
ElemModulus == 2 ^ ElemBits

L1_UINT104 == "L1Uint104Array"

\* uint(256)/104: how many elements share a slot.
PerSlot == WordBits \div ElemBits

PackedPushValues == {1, ElemModulus - 1}

PackedSLoad(slot) == IF slot \in DOMAIN packedStorage THEN packedStorage[slot] ELSE 0

\* myArray.push(v) of a uint104[]: element i goes to slot
\* KECCAK256(slot) + i / PerSlot at bit offset (i % PerSlot) * ElemBits; the
\* other bits of the word stay as they are.
PackedPush ==
    /\ Len(packedArray) < MaxLen
    /\ \E v \in PackedPushValues :
          LET length == PackedSLoad(MY_ARRAY_SLOT)
              elementSlot == (KECCAK256(MY_ARRAY_SLOT) + length \div PerSlot) % WordModulus
              offset == (length % PerSlot) * ElemBits
              word == PackedSLoad(elementSlot)
          IN  /\ packedStorage' = (MY_ARRAY_SLOT :> (length + 1))
                                  @@ (elementSlot :> (word + v * 2 ^ offset))
                                  @@ packedStorage
              /\ packedArray' = Append(packedArray, v)
    /\ l2Call' = [l2Call EXCEPT !.fn = "none"]
    /\ UNCHANGED <<l1Storage, myArray, walletVars, tipperVars>>

\* L1ArrayDemo: uint[5] myArray = [10, 20, 30, 40, 50] from slot 0 on.
L1_ARRAY == "L1ArrayDemo"
L1ArrayDemoStorage(slot) == IF slot \in 0..4 THEN 10 * (slot + 1) ELSE 0

\* Width of an address in the model (160 in the EVM).
AddrBits == 5
AddrModulus == 2 ^ AddrBits

\* L1StructDemo: myStruct = MyStruct(10, address(this), true, 20) from slot 0
\* on; b and c share the second slot, c right above the address.
L1_STRUCT == "L1StructDemo"
L1StructDemoAddress == AddrModulus - 3
L1StructDemoStorage(slot) ==
    IF slot = 0 THEN 10
    ELSE IF slot = 1 THEN L1StructDemoAddress + 1 * AddrModulus
    ELSE IF slot = 2 THEN 20
    ELSE 0

\* keccak256(abi.encodePacked(mappingKey, mappingSlot)) for the keys and the
\* slot of L1NestingDemo: distinct pairs hash to distinct words.
KECCAK256_PAIR(mappingKey, mappingSlot) == 1 + mappingKey + 2 * mappingSlot

\* L1NestingDemo: arrayMapping[0] = [10, 20, 30], arrayMapping[1] =
\* [100, 200, 250] (300 in the article, which does not fit the model's word);
\* each array has its length at the mapping hash and its elements from the
\* hash of that on.
L1_NESTING == "L1NestingDemo"
L1NestingDemoStorage(slot) ==
    LET h0 == KECCAK256_PAIR(0, 0)
        h1 == KECCAK256_PAIR(1, 0)
        a0 == <<10, 20, 30>>
        a1 == <<100, 200, 250>>
    IN  IF slot \in {h0, h1} THEN 3
        ELSE IF slot \in KECCAK256(h0)..(KECCAK256(h0) + 2) THEN a0[slot - KECCAK256(h0) + 1]
        ELSE IF slot \in KECCAK256(h1)..(KECCAK256(h1) + 2) THEN a1[slot - KECCAK256(h1) + 1]
        ELSE 0

\* The storage the L1SLOAD precompile reads for a contract address.
StorageAt(contractAddress, slot) ==
    IF contractAddress = L1_DEMO THEN SLoad(slot)
    ELSE IF contractAddress = L1_UINT104 THEN PackedSLoad(slot)
    ELSE IF contractAddress = L1_ARRAY THEN L1ArrayDemoStorage(slot)
    ELSE IF contractAddress = L1_STRUCT THEN L1StructDemoStorage(slot)
    ELSE IF contractAddress = L1_NESTING THEN L1NestingDemoStorage(slot)
    ELSE 0

\* L1_SLOAD_ADDRESS.staticcall(abi.encodePacked(contractAddress, slot))
l1sloadAt(contractAddress, slot, ok) ==
    [success |-> ok, returnValue |-> IF ok THEN StorageAt(contractAddress, slot) ELSE 0]

\* L2Uint104ArrayDemo.getArrayLength(contractAddress, arraySlot)
Uint104_getArrayLengthResult(contractAddress, arraySlot, ok) ==
    LET r == l1sloadAt(contractAddress, arraySlot, ok) IN
    IF ~r.success
      THEN [outcome |-> "revert", reason |-> "L1SLOAD failed", value |-> 0,
            reads |-> <<arraySlot>>]
      ELSE [outcome |-> "return", reason |-> "", value |-> r.returnValue,
            reads |-> <<arraySlot>>]

\* A faulty extraction that shifts and forgets to truncate to the element width.
Uint104_extract_NoTruncation(word, arrayIndex) ==
    word \div 2 ^ ((arrayIndex % PerSlot) * ElemBits)

\* uint104(abi.decode(returnValue, (uint)) >> ((arrayIndex % (uint(256)/104)) * 104))
Uint104_extract(word, arrayIndex) ==
    (word \div 2 ^ ((arrayIndex % PerSlot) * ElemBits)) % ElemModulus

\* uint(keccak256(abi.encodePacked(arraySlot))) + arrayIndex / (uint(256)/104)
Uint104_arrayElementSlot(arraySlot, arrayIndex) ==
    KECCAK256(arraySlot) + arrayIndex \div PerSlot

\* L2Uint104ArrayDemo.retrieveArrayElement(contractAddress, arraySlot, arrayIndex)
Uint104_retrieveArrayElementResult(contractAddress, arraySlot, arrayIndex, lenOk, elemOk) ==
    LET length == Uint104_getArrayLengthResult(contractAddress, arraySlot, lenOk) IN
    IF length.outcome = "revert"
      THEN length
    ELSE IF ~(arrayIndex < length.value)
      THEN [outcome |-> "revert", reason |-> "Out of bounds index", value |-> 0,
            reads |-> length.reads]
    ELSE IF Uint104_arrayElementSlot(arraySlot, arrayIndex) >= WordModulus
      THEN [outcome |-> "revert", reason |-> "Panic", value |-> 0,
            reads |-> length.reads]
    ELSE LET slot == Uint104_arrayElementSlot(arraySlot, arrayIndex)
             r == l1sloadAt(contractAddress, slot, elemOk)
         IN  IF ~r.success
               THEN [outcome |-> "revert", reason |-> "L1SLOAD failed", value |-> 0,
                     reads |-> Append(length.reads, slot)]
               ELSE [outcome |-> "return", reason |-> "",
                     value |-> Uint104_extract(r.returnValue, arrayIndex),
                     reads |-> Append(length.reads, slot)]

Uint104_getArrayLength ==
    \E arraySlot \in ArraySlots, ok \in BOOLEAN :
        LET r == Uint104_getArrayLengthResult(L1_UINT104, arraySlot, ok) IN
        /\ l2Call' = [fn |-> "L2Uint104ArrayDemo.getArrayLength",
                      arraySlot |-> arraySlot, arrayIndex |-> 0,
                      sloadOk |-> <<ok>>, outcome |-> r.outcome, reason |-> r.reason,
                      value |-> r.value, reads |-> r.reads]
        /\ UNCHANGED <<l1Storage, myArray, packedVars, walletVars, tipperVars>>

Uint104_retrieveArrayElement ==
    \E arraySlot \in ArraySlots, arrayIndex \in ArrayIndices,
       lenOk \in BOOLEAN, elemOk \in BOOLEAN :
        LET r == Uint104_retrieveArrayElementResult(L1_UINT104, arraySlot, arrayIndex,
                                                    lenOk, elemOk)
        IN
        /\ l2Call' = [fn |-> "L2Uint104ArrayDemo.retrieveArrayElement",
                      arraySlot |-> arraySlot, arrayIndex |-> arrayIndex,
                      sloadOk |-> IF Len(r.reads) = 2 THEN <<lenOk, elemOk>> ELSE <<lenOk>>,
                      outcome |-> r.outcome, reason |-> r.reason,
                      value |-> r.value, reads |-> r.reads]
        /\ UNCHANGED <<l1Storage, myArray, packedVars, walletVars, tipperVars>>

InitPacked ==
    /\ packedStorage = << >>
    /\ packedArray = << >>

NextPacked ==
    \/ PackedPush
    \/ Uint104_getArrayLength
    \/ Uint104_retrieveArrayElement

----------------------------------------------------------------------------
(* L2ArrayDemo, L2StructDemo and L2NestingDemo *)

\* Indices a caller may pass; the last one makes the checked addition overflow.
ReaderIndices == ArrayIndices \cup {WordModulus - 1}

\* L2ArrayDemo.getNum(contractAddress, arraySlot, arrayIndex)
getNumResult(contractAddress, arraySlot, arrayIndex, ok) ==
    IF arraySlot + arrayIndex >= WordModulus
      THEN [outcome |-> "revert", reason |-> "Panic", value |-> 0, reads |-> << >>]
    ELSE LET r == l1sloadAt(contractAddress, arraySlot + arrayIndex, ok) IN
         IF ~r.success
           THEN [outcome |-> "revert", reason |-> "L1SLOAD failed", value |-> 0,
                 reads |-> <<arraySlot + arrayIndex>>]
           ELSE [outcome |-> "return", reason |-> "", value |-> r.returnValue,
                 reads |-> <<arraySlot + arrayIndex>>]

\* L2StructDemo.getArrayLength(contractAddress, structSlot): one staticcall
\* for the three slots of the struct.
Struct_getArrayLengthResult(contractAddress, structSlot, ok) ==
    IF structSlot + 2 >= WordModulus
      THEN [outcome |-> "revert", reason |-> "Panic", value |-> 0, reads |-> << >>]
    ELSE LET reads == <<structSlot, structSlot + 1, structSlot + 2>>
             slot0 == StorageAt(contractAddress, structSlot)
             slot1 == StorageAt(contractAddress, structSlot + 1)
             slot2 == StorageAt(contractAddress, structSlot + 2)
             b == slot1 % AddrModulus
             c == (slot1 \div AddrModulus) = 1
         IN  IF ~ok
               THEN [outcome |-> "revert", reason |-> "L1SLOAD failed", value |-> 0,
                     reads |-> reads]
               ELSE [outcome |-> "return", reason |-> "",
                     value |-> <<slot0, b, c, slot2>>, reads |-> reads]

\* A faulty reader that decodes the answer without looking at success.
Nesting_getArrayLengthResult_NoCheck(contractAddress, mappingSlot, mappingKey, arrayIndex, ok) ==
    LET slot == KECCAK256(KECCAK256_PAIR(mappingKey, mappingSlot)) + arrayIndex
        r == l1sloadAt(contractAddress, slot % WordModulus, ok)
    IN  [outcome |-> "return", reason |-> "", value |-> r.returnValue, reads |-> <<slot>>]

\* L2NestingDemo.getArrayLength(contractAddress, mappingSlot, mappingKey, arrayIndex)
Nesting_getArrayLengthResult(contractAddress, mappingSlot, mappingKey, arrayIndex, ok) ==
    LET mappingArraySlot == KECCAK256(KECCAK256_PAIR(mappingKey, mappingSlot)) + arrayIndex
    IN  IF mappingArraySlot >= WordModulus
          THEN [outcome |-> "revert", reason |-> "Panic", value |-> 0, reads |-> << >>]
        ELSE LET r == l1sloadAt(contractAddress, mappingArraySlot, ok) IN
             IF ~r.success
               THEN [outcome |-> "revert", reason |-> "L1SLOAD failed", value |-> 0,
                     reads |-> <<mappingArraySlot>>]
               ELSE [outcome |-> "return", reason |-> "", value |-> r.returnValue,
                     reads |-> <<mappingArraySlot>>]

\* The record of a call that made at most one staticcall.
ReaderCall(fn, slot, index, ok, r) ==
    [fn |-> fn, arraySlot |-> slot, arrayIndex |-> index,
     sloadOk |-> IF Len(r.reads) = 0 THEN << >> ELSE <<ok>>,
     outcome |-> r.outcome, reason |-> r.reason, value |-> r.value, reads |-> r.reads]

getNum ==
    \E arraySlot \in ArraySlots, arrayIndex \in ReaderIndices, ok \in BOOLEAN :
        /\ l2Call' = ReaderCall("L2ArrayDemo.getNum", arraySlot, arrayIndex, ok,
                                getNumResult(L1_ARRAY, arraySlot, arrayIndex, ok))
        /\ UNCHANGED <<l1Storage, myArray, packedVars, walletVars, tipperVars>>

Struct_getArrayLength ==
    \E structSlot \in ArraySlots \cup {WordModulus - 2}, ok \in BOOLEAN :
        /\ l2Call' = ReaderCall("L2StructDemo.getArrayLength", structSlot, 0, ok,
                                Struct_getArrayLengthResult(L1_STRUCT, structSlot, ok))
        /\ UNCHANGED <<l1Storage, myArray, packedVars, walletVars, tipperVars>>

Nesting_getArrayLength ==
    \E mappingKey \in {0, 1}, arrayIndex \in ReaderIndices, ok \in BOOLEAN :
        /\ l2Call' = ReaderCall("L2NestingDemo.getArrayLength", mappingKey, arrayIndex, ok,
                                Nesting_getArrayLengthResult(L1_NESTING, 0, mappingKey,
                                                             arrayIndex, ok))
        /\ UNCHANGED <<l1Storage, myArray, packedVars, walletVars, tipperVars>>

\* The constructor of L1DynamicArrayDemo: push(10), push(20), push(30).
ConstructorValues == <<10, 20, 30>>

ConstructorPush ==
    /\ Len(myArray) < Len(ConstructorValues)
    /\ Push
    /\ myArray' = SubSeq(ConstructorValues, 1, Len(myArray) + 1)

\* Every reader of the article, with the two arrays that grow on L1.
NextReaders ==
    \/ ConstructorPush
    \/ PackedPush
    \/ getNum
    \/ getArrayLength
    \/ retrieveArrayElement
    \/ Uint104_getArrayLength
    \/ Uint104_retrieveArrayElement
    \/ Struct_getArrayLength
    \/ Nesting_getArrayLength

Init == InitWallet /\ InitTipper /\ InitArray /\ InitPacked

Next ==
    \/ handleClick
    \/ handleClose
    \/ BlockExplorerClick
    \/ CopyAddressClick
    \/ DisconnectClick
    \/ ConnectClick
    \/ ContextUpdate
    \/ Navigate

Spec == Init /\ [][Next]_vars

SpecTipper == Init /\ [][NextTipper]_vars

SpecArray == Init /\ [][NextArray]_vars

SpecPacked == Init /\ [][NextPacked]_vars

SpecReaders == Init /\ [][NextReaders]_vars

----------------------------------------------------------------------------
(* What the component renders (lines 171-175): one Menu element. *)

Menu == [anchorEl |-> anchorEl, open |-> open]

MenuActions == {"Block explorer", "Copy address", "Disconnect"}
Closers == {"handleClose", "Disconnect"}

----------------------------------------------------------------------------
(* Claims about WalletDropdown, checked under Spec *)

\* C1: whenever the menu is closed (anchorEl is null) the copied flag is
\* false; every step that clears anchorEl resets copied in the same step.
C1_ClosedImpliesNotCopied ==
    anchorEl = NULL => copied = FALSE

\* The menu was closed after an address had been copied.
C1_Witness ==
    /\ lastEvent \in Closers
    /\ anchorEl = NULL
    /\ clipboard \in Addresses

\* C2 as stated: after any of the three menu actions the menu is closed.
C2_ClosedAfterAnyAction ==
    lastEvent \in MenuActions => anchorEl = NULL

\* C2 as amended: of the three menu actions only "Disconnect" closes the
\* menu; "Block explorer" and "Copy address" leave anchorEl as it was, so the
\* menu stays open.
C2_OnlyDisconnectCloses ==
    [][ /\ lastEvent' = "Disconnect" => anchorEl' = NULL
        /\ lastEvent' \in {"Block explorer", "Copy address"} =>
              anchorEl' = anchorEl /\ anchorEl' # NULL ]_vars

\* The menu is still open after "Copy address" ran.
C2_Witness ==
    /\ lastEvent = "Copy address"
    /\ anchorEl # NULL
    /\ Menu.open

\* C3: "Copy address" sets copied; once set it stays set through every step
\* that is not a close (handleClose, directly or through Disconnect), and it
\* is false right after a close.
C3_CopiedUntilClose ==
    [][ /\ lastEvent' = "Copy address" => copied'
        /\ (copied /\ lastEvent' \notin Closers) => copied'
        /\ lastEvent' \in Closers => ~copied' ]_vars

\* The copied flag survived a change of the wallet state.
C3_Witness ==
    /\ copied
    /\ lastEvent = "context"
    /\ clipboard \in Addresses
    /\ clipboard # walletCurrentAddress

\* C4: after handleClick the one Menu element is open and anchored to the
\* clicked element, also when the menu was open already.
C4_ClickOpensMenu ==
    lastEvent = "handleClick" =>
        /\ Menu.open
        /\ Menu.anchorEl \in Elements
        /\ effects = << <<"setAnchorEl", Menu.anchorEl>> >>

\* The trigger was clicked and the menu is open on the clicked element.
C4_Witness ==
    /\ lastEvent = "handleClick"
    /\ Menu.open
    /\ Menu.anchorEl = ElementNames[2]

\* C5: handleClick, handleClose, viewScan and copyAddress leave the wallet
\* state unchanged; it changes only in a step of the collaborator (connect
\* through the Connect button, disconnect through the Disconnect entry, or a
\* new context value).
C5_WalletStateOnlyRead ==
    [][ /\ lastEvent' \in {"handleClick", "handleClose", "Block explorer",
                           "Copy address", "navigate"} =>
              UNCHANGED <<walletCurrentAddress, chainId>>
        /\ <<walletCurrentAddress, chainId>>' # <<walletCurrentAddress, chainId>> =>
              lastEvent' \in {"Connect Wallet", "Disconnect", "context"} ]_vars

\* A handler ran while a wallet session existed and the session is intact.
C5_Witness ==
    /\ lastEvent \in {"handleClose", "Copy address"}
    /\ Boolean(walletCurrentAddress)
    /\ Boolean(chainId)

\* C6: the local state after copyAddress, after Disconnect and after Connect
\* is the same whether the external call succeeded or failed.
C6_OutcomeIndependent ==
    [][ /\ lastEvent' = "Copy address" =>
              copied' /\ anchorEl' = anchorEl /\ open'
        /\ lastEvent' = "Disconnect" =>
              anchorEl' = NULL /\ ~copied' /\ ~open'
        /\ lastEvent' = "Connect Wallet" =>
              anchorEl' = anchorEl /\ copied' = copied /\ open' = open ]_vars

\* copy() failed and the copied flag is set all the same.
C6_Witness ==
    /\ lastEvent = "Copy address"
    /\ ~lastOk
    /\ copied
    /\ clipboard = UNDEFINED

\* C7: operations always has the three entries "Block explorer",
\* "Copy address", "Disconnect" in this order; only the icon of
\* "Copy address" depends on state: the success icon iff copied.
C7_ThreeStaticActions ==
    /\ Len(operations) = 3
    /\ <<operations[1].label, operations[2].label, operations[3].label>>
         = <<"Block explorer", "Copy address", "Disconnect">>
    /\ operations[1].icon = "BlockSvg"
    /\ operations[3].icon = "DisconnectSvg"
    /\ operations[2].icon \in {"CopySuccessSvg", "CopySvg"}
    /\ operations[2].icon = "CopySuccessSvg" <=> copied

\* The list shows the success icon after a copy and a wallet change.
C7_Witness ==
    /\ copied
    /\ operations[2].icon = "CopySuccessSvg"
    /\ lastEvent = "context"

----------------------------------------------------------------------------
(* Claims about the Tipper contract, checked under SpecTipper *)

\* C8: verifyAndSendTip transfers the 1000 tokens only if the call to the
\* verifier succeeded and returned exactly 32 bytes whose last byte is 1; in
\* every other case it reverts with "Could not verify proof" and no balance
\* changes.
C8_TransferOnlyIfVerified ==
    [][ tipCall'.fn = "verifyAndSendTip" =>
          LET c == tipCall'
              valid == c.success /\ Len(c.data) = 32 /\ c.data[32] = 1
              moved == \/ tipperBalance' # tipperBalance
                       \/ recipientBalance' # recipientBalance
                       \/ c.transfers # << >>
          IN  /\ moved =>
                    /\ valid
                    /\ c.outcome = "ok"
                    /\ Len(c.transfers) = 1
                    /\ c.transfers[1][2] = TIP_AMOUNT
                    /\ tipperBalance' = tipperBalance - TIP_AMOUNT
                    /\ recipientBalance' =
                         [recipientBalance EXCEPT ![c.transfers[1][1]] = @ + TIP_AMOUNT]
              /\ ~valid =>
                    /\ c.outcome = "revert"
                    /\ c.reason = "Could not verify proof"
                    /\ ~moved ]_vars

\* A verified proof was submitted and its recipient was paid.
C8_Witness ==
    /\ tipCall.fn = "verifyAndSendTip"
    /\ tipCall.outcome = "ok"
    /\ tipCall.transfers = << <<AddressOf(2), TIP_AMOUNT>> >>
    /\ recipientBalance[AddressOf(2)] = TIP_AMOUNT

----------------------------------------------------------------------------
(* Claims about L2DynamicArrayDemo, checked under SpecArray *)

\* The array Solidity keeps at a slot of L1DynamicArrayDemo.
ArrayAt(slot) == IF slot = MY_ARRAY_SLOT THEN myArray ELSE << >>

\* C10 as stated: retrieveArrayElement returns element i for every i below
\* the stored length and reverts with "Out of bounds index" for every other
\* i, without reading an element slot.
C10_ElementOrOutOfBounds ==
    l2Call.fn = "retrieveArrayElement" =>
        LET a == ArrayAt(l2Call.arraySlot)
            i == l2Call.arrayIndex
        IN  IF i < Len(a)
              THEN l2Call.outcome = "return" /\ l2Call.value = a[i + 1]
              ELSE /\ l2Call.outcome = "revert"
                   /\ l2Call.reason = "Out of bounds index"
                   /\ l2Call.reads = <<l2Call.arraySlot>>

\* C10 as amended: when the L1SLOAD staticcalls succeed, retrieveArrayElement
\* returns element i for every i below the stored length and reverts with
\* "Out of bounds index" for every other i; when a staticcall fails it reverts
\* with "L1SLOAD failed". For i at or beyond the length no element slot is
\* read in either case.
C10_ElementOrOutOfBoundsWhenSloadOk ==
    l2Call.fn = "retrieveArrayElement" =>
        LET a == ArrayAt(l2Call.arraySlot)
            i == l2Call.arrayIndex
            allOk == \A k \in 1..Len(l2Call.sloadOk) : l2Call.sloadOk[k]
        IN  /\ (allOk /\ i < Len(a)) =>
                  /\ l2Call.outcome = "return"
                  /\ l2Call.value = a[i + 1]
                  /\ l2Call.reads = <<l2Call.arraySlot, KECCAK256(l2Call.arraySlot) + i>>
            /\ (allOk /\ i >= Len(a)) =>
                  /\ l2Call.outcome = "revert"
                  /\ l2Call.reason = "Out of bounds index"
            /\ ~allOk =>
                  /\ l2Call.outcome = "revert"
                  /\ l2Call.reason = "L1SLOAD failed"
            /\ i >= Len(a) => l2Call.reads = <<l2Call.arraySlot>>

\* The last element of the three-element array was read.
C10_Witness ==
    /\ l2Call.fn = "retrieveArrayElement"
    /\ Len(myArray) = 3
    /\ l2Call.arrayIndex = 2
    /\ l2Call.outcome = "return"
    /\ l2Call.value = myArray[3]
    /\ myArray[3] # myArray[1]

----------------------------------------------------------------------------
(* Further claims about WalletDropdown, checked under Spec *)

\* C12: the trigger button is rendered, and handleClick can run, exactly
\* while chainId is truthy; otherwise the "Connect Wallet" button is
\* rendered, and a click on it calls connect once and leaves anchorEl and
\* copied as they were.
C12_RenderByChainId ==
    [][ /\ RenderedButton \in {"ButtonBase", "Connect Wallet"}
        /\ RenderedButton = "ButtonBase" <=> Boolean(chainId)
        /\ lastEvent' = "handleClick" => Boolean(chainId)
        /\ lastEvent' = "Connect Wallet" =>
              /\ ~Boolean(chainId)
              /\ effects' = << <<"connect">> >>
              /\ anchorEl' = anchorEl
              /\ copied' = copied ]_vars

\* "Connect Wallet" was clicked while an address was known but no chain.
C12_Witness ==
    /\ lastEvent = "Connect Wallet"
    /\ ~lastOk
    /\ Boolean(walletCurrentAddress)
    /\ ~Boolean(chainId)
    /\ effects = << <<"connect">> >>

\* C13: "Disconnect" calls the collaborator's disconnect once, then resets
\* the local state; afterwards anchorEl is null and copied is false, whatever
\* they were and whatever disconnect() did.
C13_DisconnectThenClose ==
    [][ lastEvent' = "Disconnect" =>
          /\ effects' = << <<"disconnect", disconnect>>,
                           <<"setAnchorEl", NULL>>, <<"setCopied", "false">> >>
          /\ anchorEl' = NULL
          /\ copied' = FALSE ]_vars

\* disconnect() did nothing to the session and the menu is closed all the same.
C13_Witness ==
    /\ lastEvent = "Disconnect"
    /\ ~lastOk
    /\ Boolean(chainId)
    /\ anchorEl = NULL
    /\ ~copied
    /\ clipboard \in Addresses

\* C14: "Block explorer" opens one window on
\* generateExploreLink(EXPLORER_URL[k], walletCurrentAddress, "address") with
\* k = "L1" iff chainId = CHAIN_ID.L1 and "L2" for every other chainId, and
\* changes neither anchorEl nor copied.
C14_ExplorerLink ==
    [][ lastEvent' = "Block explorer" =>
          LET k == IF chainId = CHAIN_ID.L1 THEN "L1" ELSE "L2" IN
          /\ Len(effects') = 1
          /\ effects'[1] = <<"window.open">> \o
                generateExploreLink(EXPLORER_URL[k], walletCurrentAddress, "address")
          /\ k = "L1" <=> chainId = CHAIN_ID.L1
          /\ anchorEl' = anchorEl
          /\ copied' = copied ]_vars

\* The explorer was opened for a chain that is neither L1 nor L2.
C14_Witness ==
    /\ lastEvent = "Block explorer"
    /\ chainId \notin {CHAIN_ID.L1, CHAIN_ID.L2}
    /\ effects = << <<"window.open", EXPLORER_URL.L2, walletCurrentAddress, "address">> >>

\* C16: a "Copy address" click copies the address current at the click, and
\* a "Block explorer" click uses the address and chainId current at the
\* click, also after they changed while the menu was open.
C16_NoStaleWalletValue ==
    [][ /\ operations[1].action = viewScanClosure
        /\ operations[2].action = copyAddressClosure
        /\ lastEvent' = "Copy address" =>
              /\ effects'[1] = <<"copy", walletCurrentAddress>>
              /\ lastOk' => clipboard' = walletCurrentAddress
        /\ lastEvent' = "Block explorer" =>
              /\ effects'[1][3] = walletCurrentAddress
              /\ effects'[1][2] = EXPLORER_URL.L1 <=> chainId = CHAIN_ID.L1 ]_vars

\* An address was copied, the wallet switched to another address, and the
\* next copy (which failed) was asked to write the new address.
C16_Witness ==
    /\ lastEvent = "Copy address"
    /\ ~lastOk
    /\ clipboard \in Addresses
    /\ walletCurrentAddress \in Addresses
    /\ clipboard # walletCurrentAddress
    /\ effects[1] = <<"copy", walletCurrentAddress>>

\* C17: a change of the wallet context alone leaves anchorEl and copied as
\* they were: an open menu stays open and a set copied flag stays set.
C17_ContextChangeKeepsUiState ==
    [][ lastEvent' = "context" =>
          /\ anchorEl' = anchorEl
          /\ copied' = copied
          /\ open' = open ]_vars

\* The session ended outside the component; the menu is still open and the
\* copied flag still set.
C17_Witness ==
    /\ lastEvent = "context"
    /\ ~Boolean(chainId)
    /\ open
    /\ anchorEl # NULL
    /\ copied

----------------------------------------------------------------------------
(* Claims about L2Uint104ArrayDemo, checked under SpecPacked *)

\* The uint104[] Solidity keeps at a slot of L1Uint104Array.
PackedArrayAt(slot) == IF slot = MY_ARRAY_SLOT THEN packedArray ELSE << >>

\* C11 as stated: for every in-bounds index i retrieveArrayElement returns
\* exactly element i, read from slot KECCAK256(arraySlot) + i / PerSlot.
C11_ReturnsPackedElement ==
    l2Call.fn = "L2Uint104ArrayDemo.retrieveArrayElement" =>
        LET a == PackedArrayAt(l2Call.arraySlot)
            i == l2Call.arrayIndex
        IN  i < Len(a) =>
              /\ l2Call.outcome = "return"
              /\ l2Call.value = a[i + 1]
              /\ l2Call.reads =
                   <<l2Call.arraySlot, KECCAK256(l2Call.arraySlot) + i \div PerSlot>>

\* C11 as amended: for every in-bounds index i, when the L1SLOAD staticcalls
\* succeed retrieveArrayElement returns exactly element i, read from slot
\* KECCAK256(arraySlot) + i / PerSlot, whatever its neighbours in the slot
\* are; when a staticcall fails it reverts with "L1SLOAD failed".
C11_ReturnsPackedElementWhenSloadOk ==
    l2Call.fn = "L2Uint104ArrayDemo.retrieveArrayElement" =>
        LET a == PackedArrayAt(l2Call.arraySlot)
            i == l2Call.arrayIndex
            allOk == \A k \in 1..Len(l2Call.sloadOk) : l2Call.sloadOk[k]
        IN  i < Len(a) =>
              /\ allOk =>
                    /\ l2Call.outcome = "return"
                    /\ l2Call.value = a[i + 1]
                    /\ l2Call.reads =
                         <<l2Call.arraySlot, KECCAK256(l2Call.arraySlot) + i \div PerSlot>>
              /\ ~allOk =>
                    /\ l2Call.outcome = "revert"
                    /\ l2Call.reason = "L1SLOAD failed"

\* The low element of a slot was read while its neighbour in the same slot
\* holds another, non-zero value.
C11_Witness ==
    /\ l2Call.fn = "L2Uint104ArrayDemo.retrieveArrayElement"
    /\ l2Call.outcome = "return"
    /\ l2Call.arrayIndex = 0
    /\ Len(packedArray) >= 2
    /\ packedArray[2] = ElemModulus - 1
    /\ l2Call.value = packedArray[1]
    /\ packedArray[1] # packedArray[2]

----------------------------------------------------------------------------
(* Claims about all the L1SLOAD readers, checked under SpecReaders *)

\* C15: every reader reverts with "L1SLOAD failed" whenever a staticcall to
\* the precompile it made reported failure, and returns a value only when
\* every staticcall it made succeeded.
C15_FailedSloadReverts ==
    l2Call.fn # "none" =>
        LET failed == \E k \in 1..Len(l2Call.sloadOk) : ~l2Call.sloadOk[k] IN
        /\ failed => l2Call.outcome = "revert" /\ l2Call.reason = "L1SLOAD failed"
        /\ l2Call.outcome = "return" => ~failed /\ Len(l2Call.sloadOk) >= 1
        /\ Len(l2Call.sloadOk) <= Len(l2Call.reads)

\* The struct reader's staticcall failed and the call reverted.
C15_Witness ==
    /\ l2Call.fn = "L2StructDemo.getArrayLength"
    /\ l2Call.sloadOk = <<FALSE>>
    /\ l2Call.reads = <<0, 1, 2>>
    /\ l2Call.outcome = "revert"
    /\ l2Call.reason = "L1SLOAD failed"

====
